---- MODULE Spec2Model ----
(***************************************************************************)
(* Model of the nutri-vision text API: the span grouper, the quantity      *)
(* parser, the unit normaliser, the confidence scorer and the item         *)
(* assembler of nlp/spacy_extractor.py, and the nutrition resolver and the *)
(* aggregator of main.py.                                                  *)
(*                                                                         *)
(* Representation.                                                         *)
(*  - A Python str is a sequence of one-character strings, so that strip,  *)
(*    lower, split, "in" and the regular expression are computed character *)
(*    by character.  Str(s) is the TLA+ string with the same characters.   *)
(*  - A Python float is an exact rational [n |-> numerator, d |->          *)
(*    denominator] in lowest terms with d > 0; NoneR (d = 0) stands for    *)
(*    None where a float is optional.  Inf, NegInf and NaN are the floats  *)
(*    inf, -inf and nan.  Binary rounding error of float arithmetic is not *)
(*    modelled.                                                            *)
(***************************************************************************)
EXTENDS Integers, Sequences, FiniteSets, TLC

(***************************************************************************)
(* Rational arithmetic (Python float)                                      *)
(***************************************************************************)
Abs(x) == IF x < 0 THEN -x ELSE x

RECURSIVE GCD(_, _)
GCD(a, b) == IF b = 0 THEN a ELSE GCD(b, a % b)

Rat(n, d) ==
    LET g == GCD(Abs(n), Abs(d))
        s == IF d < 0 THEN -1 ELSE 1
    IN [n |-> (s * n) \div g, d |-> (s * d) \div g]

NoneR == [n |-> 0, d |-> 0]

R(k) == [n |-> k, d |-> 1]

\* n/d for a fraction already in lowest terms
Q(n, d) == [n |-> n, d |-> d]

\* float('inf'), float('-inf') and float('nan')
Inf == [n |-> 1, d |-> 0]

NegInf == [n |-> -1, d |-> 0]

NaN == [n |-> 0, d |-> -1]

IsInf(a) == a = Inf \/ a = NegInf

Sign(k) == IF k > 0 THEN Inf ELSE NegInf

\* A float other than inf, -inf and nan
Finite(a) == a.d > 0

RAdd(a, b) ==
    IF Finite(a) /\ Finite(b) THEN Rat(a.n * b.d + b.n * a.d, a.d * b.d)
    ELSE IF a = NaN \/ b = NaN THEN NaN
    ELSE IF IsInf(a) /\ IsInf(b) THEN (IF a = b THEN a ELSE NaN)
    ELSE IF IsInf(a) THEN a
    ELSE b

RMul(a, b) ==
    IF Finite(a) /\ Finite(b) THEN Rat(a.n * b.n, a.d * b.d)
    ELSE IF a = NaN \/ b = NaN THEN NaN
    ELSE IF a.n * b.n = 0 THEN NaN
    ELSE Sign(a.n * b.n)

\* a / b for b other than 0.0
RDiv(a, b) ==
    IF Finite(a) /\ Finite(b) THEN Rat(a.n * b.d, a.d * b.n)
    ELSE IF a = NaN \/ b = NaN THEN NaN
    ELSE IF IsInf(a) THEN (IF IsInf(b) THEN NaN ELSE Sign(a.n * b.n))
    ELSE R(0)

RLt(a, b) ==
    IF Finite(a) /\ Finite(b) THEN a.n * b.d < b.n * a.d
    ELSE IF a = NaN \/ b = NaN THEN FALSE
    ELSE a # b /\ (a = NegInf \/ b = Inf)

RLe(a, b) ==
    IF Finite(a) /\ Finite(b) THEN a.n * b.d <= b.n * a.d
    ELSE IF a = NaN \/ b = NaN THEN FALSE
    ELSE a = NegInf \/ b = Inf

RMin(a, b) == IF RLt(b, a) THEN b ELSE a

\* Python truthiness of an optional float: None and 0.0 are falsy.
Truthy(a) == a # NoneR /\ (a.n # 0 \/ a = NaN)

\* round(x, nd) for nd decimals given as scale = 10^nd: round half to even.
\* (Exact for every x whose tie cases are binary fractions.)
\* round(inf, nd) is inf and round(nan, nd) is nan.
RoundTo(a, scale) ==
    IF ~Finite(a) THEN a
    ELSE LET num == a.n * scale
             fl  == num \div a.d
             rem == num - fl * a.d
             up  == \/ 2 * rem > a.d
                    \/ 2 * rem = a.d /\ fl % 2 = 1
         IN Rat(IF up THEN fl + 1 ELSE fl, scale)

(***************************************************************************)
(* Character sequences (Python str)                                        *)
(***************************************************************************)
RECURSIVE Str(_)
Str(s) == IF s = <<>> THEN "" ELSE Head(s) \o Str(Tail(s))

\* str.lower() and str.upper(), letter by letter
ToLower ==
    [A |-> "a", B |-> "b", C |-> "c", D |-> "d", E |-> "e", F |-> "f", G |-> "g",
     H |-> "h", I |-> "i", J |-> "j", K |-> "k", L |-> "l", M |-> "m", N |-> "n",
     O |-> "o", P |-> "p", Q |-> "q", R |-> "r", S |-> "s", T |-> "t", U |-> "u",
     V |-> "v", W |-> "w", X |-> "x", Y |-> "y", Z |-> "z"]

ToUpper ==
    [a |-> "A", b |-> "B", c |-> "C", d |-> "D", e |-> "E", f |-> "F", g |-> "G",
     h |-> "H", i |-> "I", j |-> "J", k |-> "K", l |-> "L", m |-> "M", n |-> "N",
     o |-> "O", p |-> "P", q |-> "Q", r |-> "R", s |-> "S", t |-> "T", u |-> "U",
     v |-> "V", w |-> "W", x |-> "X", y |-> "Y", z |-> "Z"]

DigitOf ==
    "0" :> 0 @@ "1" :> 1 @@ "2" :> 2 @@ "3" :> 3 @@ "4" :> 4 @@
    "5" :> 5 @@ "6" :> 6 @@ "7" :> 7 @@ "8" :> 8 @@ "9" :> 9

IsDigit(c) == c \in DOMAIN DigitOf

DigitVal(c) == DigitOf[c]

IsSpace(c) == c = " "

LowerChar(c) == IF c \in DOMAIN ToLower THEN ToLower[c] ELSE c

\* str.lower()
Lower(s) == [i \in 1..Len(s) |-> LowerChar(s[i])]

RECURSIVE LStrip(_)
LStrip(s) == IF s # <<>> /\ IsSpace(Head(s)) THEN LStrip(Tail(s)) ELSE s

RECURSIVE RStrip(_)
RStrip(s) ==
    IF s # <<>> /\ IsSpace(s[Len(s)]) THEN RStrip(SubSeq(s, 1, Len(s) - 1)) ELSE s

\* str.strip()
Strip(s) == RStrip(LStrip(s))

\* "c in s" for a single character c
HasChar(s, c) == \E i \in 1..Len(s) : s[i] = c

\* "key in s": key is a contiguous substring of s
IsSubstring(key, s) ==
    \E i \in 0..(Len(s) - Len(key)) : SubSeq(s, i + 1, i + Len(key)) = key

\* length of the longest prefix of s made of digits / of white space
RECURSIVE DigitRun(_)
DigitRun(s) == IF s # <<>> /\ IsDigit(Head(s)) THEN 1 + DigitRun(Tail(s)) ELSE 0

RECURSIVE SpaceRun(_)
SpaceRun(s) == IF s # <<>> /\ IsSpace(Head(s)) THEN 1 + SpaceRun(Tail(s)) ELSE 0

Drop(s, k) == SubSeq(s, k + 1, Len(s))

Take(s, k) == SubSeq(s, 1, k)

\* int() of a sequence of digits
RECURSIVE DigitsVal(_)
DigitsVal(s) ==
    IF s = <<>> THEN 0 ELSE 10 * DigitsVal(Take(s, Len(s) - 1)) + DigitVal(s[Len(s)])

RECURSIVE Pow10(_)
Pow10(k) == IF k = 0 THEN 1 ELSE 10 * Pow10(k - 1)

\* The absent token (Python None where a str is expected).
NoneTok == <<"<None>">>

\* float(s) for the decimal notation [sign] digits [. digits] | [sign] . digits,
\* surrounding white space ignored; NoneR stands for ValueError.  Exponents,
\* underscores, "inf" and "nan" need characters the tokens of this model do not
\* contain.
FloatParse(s) ==
    LET t    == Strip(s)
        neg  == t # <<>> /\ Head(t) = "-"
        u    == IF t # <<>> /\ Head(t) \in {"-", "+"} THEN Tail(t) ELSE t
        ip   == DigitRun(u)
        rest == Drop(u, ip)
        dot  == rest # <<>> /\ Head(rest) = "."
        frac == IF dot THEN Tail(rest) ELSE <<>>
        fp   == DigitRun(frac)
        ok   == /\ ip + fp > 0
                /\ IF dot THEN fp = Len(frac) ELSE rest = <<>>
        mag  == Rat(DigitsVal(Take(u, ip)) * Pow10(fp) + DigitsVal(frac), Pow10(fp))
    IN IF ~ok THEN NoneR
       ELSE IF neg THEN Rat(-mag.n, mag.d) ELSE mag

\* s.split("/"): the first two parts (parts[1] is NoneTok when there is none)
SplitSlash(s) ==
    LET p1 == CHOOSE i \in 1..Len(s) :
                  s[i] = "/" /\ \A j \in 1..(i - 1) : s[j] # "/"
        r  == Drop(s, p1)
        p2 == IF HasChar(r, "/")
              THEN CHOOSE i \in 1..Len(r) :
                       r[i] = "/" /\ \A j \in 1..(i - 1) : r[j] # "/"
              ELSE Len(r) + 1
    IN <<Take(s, p1 - 1), Take(r, p2 - 1)>>

\* re.match(r'(\d+)\s+(\d+)/(\d+)', s): the three groups, or <<>> for no match
MixedMatch(s) ==
    LET a  == DigitRun(s)
        s1 == Drop(s, a)
        w  == SpaceRun(s1)
        s2 == Drop(s1, w)
        b  == DigitRun(s2)
        s3 == Drop(s2, b)
        sl == s3 # <<>> /\ Head(s3) = "/"
        s4 == IF sl THEN Tail(s3) ELSE <<>>
        c  == DigitRun(s4)
    IN IF a > 0 /\ w > 0 /\ b > 0 /\ sl /\ c > 0
       THEN <<Take(s, a), Take(s2, b), Take(s4, c)>>
       ELSE <<>>

word_numbers ==
    [one |-> R(1), two |-> R(2), three |-> R(3), four |-> R(4), five |-> R(5),
     six |-> R(6), seven |-> R(7), eight |-> R(8), nine |-> R(9), ten |-> R(10),
     half |-> Rat(1, 2), quarter |-> Rat(1, 4), third |-> Rat(33, 100),
     a |-> R(1), an |-> R(1)]

\* w2n.word_to_num(s) of the word2number library: a spelled-out number, NoneR
\* standing for the ValueError it raises when s holds no number word.
W2NWords == [eleven |-> R(11), twenty |-> R(20)]

word_to_num(s) ==
    IF Str(s) \in DOMAIN W2NWords THEN W2NWords[Str(s)] ELSE NoneR

ParseFraction(s) ==
    LET parts == SplitSlash(s)
        x     == FloatParse(parts[1])
        y     == FloatParse(parts[2])
    IN IF x = NoneR \/ y = NoneR \/ y.n = 0 THEN NoneR ELSE RDiv(x, y)

\* Mutant: there is no rule for mixed fractions.
ParseMixedMissing(s) == NoneR

ParseMixed(s) ==
    LET m == MixedMatch(s)
    IN IF m = <<>> \/ DigitsVal(m[3]) = 0 THEN NoneR
       ELSE RAdd(R(DigitsVal(m[1])), Rat(DigitsVal(m[2]), DigitsVal(m[3])))

parse_number(qty_str) ==
    IF qty_str = NoneTok \/ qty_str = <<>> THEN R(1)
    ELSE LET s == Lower(Strip(qty_str))
         IN IF FloatParse(s) # NoneR THEN FloatParse(s)
            ELSE IF HasChar(s, "/") /\ ParseFraction(s) # NoneR THEN ParseFraction(s)
            ELSE IF ParseMixed(s) # NoneR THEN ParseMixed(s)
            ELSE IF Str(s) \in DOMAIN word_numbers THEN word_numbers[Str(s)]
            ELSE IF word_to_num(s) # NoneR THEN word_to_num(s)
            ELSE R(1)

UNIT_ALIASES ==
    [g |-> "grams", gram |-> "grams", grams |-> "grams",
     kg |-> "kg", kilogram |-> "kg", kilograms |-> "kg",
     ml |-> "ml", milliliter |-> "ml", milliliters |-> "ml",
     l |-> "liters", liter |-> "liters", litre |-> "liters", litres |-> "liters",
     cup |-> "cups", cups |-> "cups",
     slice |-> "slices", slices |-> "slices",
     piece |-> "pieces", pieces |-> "pieces", pc |-> "pieces",
     tbsp |-> "tablespoons", tablespoon |-> "tablespoons", tablespoons |-> "tablespoons",
     tsp |-> "teaspoons", teaspoon |-> "teaspoons", teaspoons |-> "teaspoons",
     glass |-> "glasses", glasses |-> "glasses",
     serving |-> "servings", servings |-> "servings", serve |-> "servings",
     oz |-> "ounces", ounce |-> "ounces", ounces |-> "ounces",
     lb |-> "pounds", pound |-> "pounds", pounds |-> "pounds",
     bowl |-> "bowls", bowls |-> "bowls",
     plate |-> "plates", plates |-> "plates",
     can |-> "cans", cans |-> "cans",
     bottle |-> "bottles", bottles |-> "bottles",
     handful |-> "handful", bunch |-> "bunch"]

normalize_unit(unit) ==
    IF unit = NoneTok \/ unit = <<>> THEN "servings"
    ELSE LET unit_lower == Str(Strip(Lower(unit)))
         IN IF unit_lower \in DOMAIN UNIT_ALIASES
            THEN UNIT_ALIASES[unit_lower]
            ELSE unit_lower


UpperChar(c) == IF c \in DOMAIN ToUpper THEN ToUpper[c] ELSE c

\* str.upper()
Upper(s) == [i \in 1..Len(s) |-> UpperChar(s[i])]

(***************************************************************************)
(* Spans (spaCy entities) and the extractor                                *)
(*                                                                         *)
(* A span is [label, text, start, end, score, confidence]: score and       *)
(* confidence are the optional attributes extract_item_from_group probes   *)
(* with getattr, NoneR when the entity has no such attribute.              *)
(***************************************************************************)
IsFood(e) == e.label = "FOOD"

\* "a or b" on optional floats
PyOr(a, b) == IF Truthy(a) THEN a ELSE b

\* line 175: getattr(ent, 'score', None) or getattr(ent, 'confidence', None)
EntScore(ent) == PyOr(ent.score, ent.confidence)

RECURSIVE SumR(_)
SumR(s) == IF s = <<>> THEN R(0) ELSE RAdd(Head(s), SumR(Tail(s)))

\* Mutant: the heuristic counts the spans instead of looking at their labels.
calculate_confidence_by_count(entity_info) ==
    LET entity_types == {entity_info[k][1].label : k \in 1..Len(entity_info)}
    IN IF "FOOD" \in entity_types
       THEN IF Len(entity_info) >= 3 THEN Rat(95, 100)
            ELSE IF Len(entity_info) = 2 THEN Rat(80, 100)
            ELSE Rat(65, 100)
       ELSE Rat(50, 100)

\* entity_info is the list of (ent, score) pairs
calculate_confidence(entity_info) ==
    LET present == SelectSeq(entity_info, LAMBDA p : p[2] # NoneR)
        scores  == [k \in 1..Len(present) |-> present[k][2]]
        entity_types == {entity_info[k][1].label : k \in 1..Len(entity_info)}
    IN IF entity_info = <<>> THEN Rat(1, 2)
       ELSE IF scores # <<>> THEN RDiv(SumR(scores), R(Len(scores)))
       ELSE IF "FOOD" \in entity_types
            THEN IF "QUANTITY" \in entity_types /\ "UNIT" \in entity_types
                 THEN Rat(95, 100)
                 ELSE IF "QUANTITY" \in entity_types \/ "UNIT" \in entity_types
                      THEN Rat(80, 100)
                      ELSE Rat(65, 100)
            ELSE Rat(50, 100)

\* Mutant: the flag is cleared when a new group is started, so that the next
\* FOOD joins the group instead of closing it.
RECURSIVE GroupLoopFlagReset(_, _, _, _, _)
GroupLoopFlagReset(entities, k, groups, current_group, has_food_in_group) ==
    IF k > Len(entities)
    THEN IF current_group # <<>> THEN Append(groups, current_group) ELSE groups
    ELSE LET ent == entities[k]
         IN IF ent.label = "FOOD" /\ has_food_in_group
            THEN GroupLoopFlagReset(entities, k + 1,
                                    IF current_group # <<>>
                                    THEN Append(groups, current_group) ELSE groups,
                                    <<ent>>, FALSE)
            ELSE GroupLoopFlagReset(entities, k + 1, groups,
                                    Append(current_group, ent),
                                    has_food_in_group \/ ent.label = "FOOD")

\* Mutant: once the group has its FOOD, a QUANTITY span starts the next group
\* too, so that it goes with the food that follows it.
RECURSIVE GroupLoopCutAtQuantity(_, _, _, _, _)
GroupLoopCutAtQuantity(entities, k, groups, current_group, has_food_in_group) ==
    IF k > Len(entities)
    THEN IF current_group # <<>> THEN Append(groups, current_group) ELSE groups
    ELSE LET ent == entities[k]
         IN IF ent.label \in {"FOOD", "QUANTITY"} /\ has_food_in_group
            THEN GroupLoopCutAtQuantity(entities, k + 1,
                                        IF current_group # <<>>
                                        THEN Append(groups, current_group) ELSE groups,
                                        <<ent>>, ent.label = "FOOD")
            ELSE GroupLoopCutAtQuantity(entities, k + 1, groups,
                                        Append(current_group, ent),
                                        has_food_in_group \/ ent.label = "FOOD")

\* The loop of group_entities_by_proximity from entity k on, with the loop's
\* locals groups, current_group and has_food_in_group.
RECURSIVE GroupLoop(_, _, _, _, _)
GroupLoop(entities, k, groups, current_group, has_food_in_group) ==
    IF k > Len(entities)
    THEN IF current_group # <<>> THEN Append(groups, current_group) ELSE groups
    ELSE LET ent == entities[k]
         IN IF ent.label = "FOOD" /\ has_food_in_group
            THEN GroupLoop(entities, k + 1,
                           IF current_group # <<>>
                           THEN Append(groups, current_group) ELSE groups,
                           <<ent>>, TRUE)
            ELSE GroupLoop(entities, k + 1, groups, Append(current_group, ent),
                           has_food_in_group \/ ent.label = "FOOD")

\* Mutant: the group still open at the end of the input is not added.
group_entities_without_last(entities) ==
    LET g == GroupLoop(entities, 1, <<>>, <<>>, FALSE)
    IN IF entities = <<>> THEN <<>> ELSE SubSeq(g, 1, Len(g) - 1)

group_entities_by_proximity(entities) ==
    IF entities = <<>> THEN <<>> ELSE GroupLoop(entities, 1, <<>>, <<>>, FALSE)

\* max(s, key=lambda q: q.end): the first element of s with the largest end
MaxByEnd(s) ==
    s[CHOOSE k \in 1..Len(s) :
          /\ \A j \in 1..Len(s) : s[j].end <= s[k].end
          /\ \A j \in 1..(k - 1) : s[j].end < s[k].end]

\* " ".join(f.text for f in foods)
RECURSIVE JoinTexts(_)
JoinTexts(foods) ==
    IF foods = <<>> THEN <<>>
    ELSE IF Len(foods) = 1 THEN foods[1].text
    ELSE foods[1].text \o <<" ">> \o JoinTexts(Tail(foods))

\* Mutant: the spans are not filtered by their position.
ValidAnywhere(spans, first_food_start) == spans

\* valid_quantities / valid_units: the spans that end before the first food
ValidBefore(spans, first_food_start) ==
    SelectSeq(spans, LAMBDA q : q.end <= first_food_start)

extract_item_from_group(group) ==
    LET entity_info == [k \in 1..Len(group) |-> <<group[k], EntScore(group[k])>>]
        quantities  == SelectSeq(group, LAMBDA e : e.label = "QUANTITY")
        units       == SelectSeq(group, LAMBDA e : e.label = "UNIT")
        foods       == SelectSeq(group, IsFood)
        ingredient  == JoinTexts(foods)
        first_food_start == foods[1].start
        valid_quantities == ValidBefore(quantities, first_food_start)
        valid_units      == ValidBefore(units, first_food_start)
        quantity == IF foods # <<>> /\ valid_quantities # <<>>
                    THEN parse_number(MaxByEnd(valid_quantities).text)
                    ELSE R(1)
        unit     == IF foods # <<>> /\ valid_units # <<>>
                    THEN normalize_unit(MaxByEnd(valid_units).text)
                    ELSE "serving"
        confidence == calculate_confidence(entity_info)
    IN [ingredient |-> Strip(ingredient), quantity |-> quantity, unit |-> unit,
        confidence |-> RoundTo(confidence, 100)]

\* The items spacy_extract builds from the groups: one per group that has a
\* FOOD entity and a non-empty ingredient.
RECURSIVE ItemsOfGroups(_)
ItemsOfGroups(entity_groups) ==
    IF entity_groups = <<>> THEN <<>>
    ELSE LET group == Head(entity_groups)
             has_food == \E k \in 1..Len(group) : group[k].label = "FOOD"
             rest == ItemsOfGroups(Tail(entity_groups))
         IN IF has_food /\ extract_item_from_group(group).ingredient # <<>>
            THEN <<extract_item_from_group(group)>> \o rest
            ELSE rest

spacy_extract(model_loaded, ents) ==
    IF ~model_loaded \/ ents = <<>> THEN <<>>
    ELSE ItemsOfGroups(group_entities_by_proximity(ents))

(***************************************************************************)
(* Nutrition records and the fallback table (main.py)                      *)
(***************************************************************************)
\* MacroInfo(calories, protein, carbs, fats, fiber, sugar)
P(c, p, cb, f, fi, su) ==
    [calories |-> c, protein |-> p, carbs |-> cb, fats |-> f, fiber |-> fi, sugar |-> su]

\* "macros = None"
NoMacros == P(NoneR, NoneR, NoneR, NoneR, NoneR, NoneR)

MacroFields == {"calories", "protein", "carbs", "fats", "fiber", "sugar"}

\* MacroInfo's validation (Field(ge=0)) accepts the record: inf is a float
\* that is >= 0, nan is not.
MacroInfoValid(m) ==
    \A f \in MacroFields : m[f] = NoneR \/ (m[f].n >= 0 /\ m[f] # NaN)

nutrition_db ==
    <<
      <<<<"a","p","p","l","e">>,
        P(R(95), Q(1, 2), R(25), Q(3, 10), R(4), R(19))>>,
      <<<<"b","a","n","a","n","a">>,
        P(R(105), Q(13, 10), R(27), Q(2, 5), Q(31, 10), R(14))>>,
      <<<<"o","r","a","n","g","e">>,
        P(R(65), Q(13, 10), R(16), Q(1, 5), Q(17, 5), R(13))>>,
      <<<<"s","t","r","a","w","b","e","r","r","y">>,
        P(R(49), R(1), R(12), Q(1, 2), Q(33, 10), R(7))>>,
      <<<<"g","r","a","p","e">>,
        P(R(69), Q(7, 10), R(18), Q(1, 5), Q(9, 10), R(15))>>,
      <<<<"m","a","n","g","o">>,
        P(R(99), Q(7, 5), R(25), Q(3, 5), Q(13, 5), R(23))>>,
      <<<<"p","i","n","e","a","p","p","l","e">>,
        P(R(82), Q(9, 10), R(22), Q(1, 5), Q(23, 10), R(16))>>,
      <<<<"w","a","t","e","r","m","e","l","o","n">>,
        P(R(46), Q(9, 10), R(12), Q(1, 5), Q(3, 5), R(9))>>,
      <<<<"p","e","a","c","h">>,
        P(R(58), Q(7, 5), R(14), Q(2, 5), Q(23, 10), R(13))>>,
      <<<<"p","e","a","r">>,
        P(R(101), Q(3, 5), R(27), Q(1, 5), Q(11, 2), R(17))>>,
      <<<<"b","r","o","c","c","o","l","i">>,
        P(R(55), Q(23, 5), R(11), Q(3, 5), Q(51, 10), Q(13, 5))>>,
      <<<<"c","a","r","r","o","t">>,
        P(R(41), Q(9, 10), R(10), Q(1, 5), Q(14, 5), Q(47, 10))>>,
      <<<<"t","o","m","a","t","o">>,
        P(R(22), Q(11, 10), Q(24, 5), Q(1, 5), Q(7, 5), Q(16, 5))>>,
      <<<<"l","e","t","t","u","c","e">>,
        P(R(15), Q(7, 5), Q(29, 10), Q(1, 5), Q(13, 10), Q(4, 5))>>,
      <<<<"s","p","i","n","a","c","h">>,
        P(R(23), Q(29, 10), Q(18, 5), Q(2, 5), Q(11, 5), Q(2, 5))>>,
      <<<<"c","u","c","u","m","b","e","r">>,
        P(R(16), Q(7, 10), Q(18, 5), Q(1, 10), Q(1, 2), Q(17, 10))>>,
      <<<<"b","e","l","l"," ","p","e","p","p","e","r">>,
        P(R(31), R(1), R(6), Q(3, 10), Q(21, 10), Q(21, 5))>>,
      <<<<"m","u","s","h","r","o","o","m">>,
        P(R(22), Q(31, 10), Q(33, 10), Q(3, 10), R(1), R(2))>>,
      <<<<"o","n","i","o","n">>,
        P(R(40), Q(11, 10), R(9), Q(1, 10), Q(17, 10), Q(21, 5))>>,
      <<<<"g","a","r","l","i","c">>,
        P(R(149), Q(32, 5), R(33), Q(1, 2), Q(21, 10), R(1))>>,
      <<<<"c","h","i","c","k","e","n">>,
        P(R(165), R(31), R(0), Q(18, 5), R(0), R(0))>>,
      <<<<"c","h","i","c","k","e","n"," ","b","r","e","a","s","t">>,
        P(R(165), R(31), R(0), Q(18, 5), R(0), R(0))>>,
      <<<<"b","e","e","f">>,
        P(R(250), R(26), R(0), R(15), R(0), R(0))>>,
      <<<<"p","o","r","k">>,
        P(R(242), R(27), R(0), R(14), R(0), R(0))>>,
      <<<<"f","i","s","h">>,
        P(R(206), R(22), R(0), R(12), R(0), R(0))>>,
      <<<<"s","a","l","m","o","n">>,
        P(R(208), R(20), R(0), R(13), R(0), R(0))>>,
      <<<<"t","u","n","a">>,
        P(R(132), R(28), R(0), Q(13, 10), R(0), R(0))>>,
      <<<<"e","g","g">>,
        P(R(155), R(13), Q(11, 10), R(11), R(0), Q(11, 10))>>,
      <<<<"t","o","f","u">>,
        P(R(76), R(8), Q(19, 10), Q(24, 5), Q(3, 10), Q(7, 10))>>,
      <<<<"b","r","e","a","d">>,
        P(R(265), R(9), R(49), Q(16, 5), Q(27, 10), R(5))>>,
      <<<<"r","i","c","e">>,
        P(R(130), Q(27, 10), R(28), Q(3, 10), Q(2, 5), Q(1, 10))>>,
      <<<<"b","r","o","w","n"," ","r","i","c","e">>,
        P(R(112), Q(23, 10), R(24), Q(9, 10), Q(9, 5), Q(2, 5))>>,
      <<<<"p","a","s","t","a">>,
        P(R(131), R(5), R(25), Q(11, 10), Q(9, 5), Q(3, 5))>>,
      <<<<"p","o","t","a","t","o">>,
        P(R(77), R(2), R(17), Q(1, 10), Q(21, 10), Q(4, 5))>>,
      <<<<"s","w","e","e","t"," ","p","o","t","a","t","o">>,
        P(R(86), Q(8, 5), R(20), Q(1, 10), R(3), Q(21, 5))>>,
      <<<<"o","a","t","s">>,
        P(R(389), Q(169, 10), R(66), Q(69, 10), Q(53, 5), Q(99, 100))>>,
      <<<<"q","u","i","n","o","a">>,
        P(R(120), Q(22, 5), R(21), Q(19, 10), Q(14, 5), Q(9, 10))>>,
      <<<<"p","i","z","z","a">>,
        P(R(285), R(12), R(36), R(10), Q(23, 10), Q(19, 5))>>,
      <<<<"b","u","r","g","e","r">>,
        P(R(295), R(17), R(23), R(14), R(2), R(4))>>,
      <<<<"s","a","l","a","d">>,
        P(R(65), R(5), R(7), R(4), R(3), R(4))>>,
      <<<<"s","a","n","d","w","i","c","h">>,
        P(R(230), R(10), R(30), R(8), R(3), R(4))>>,
      <<<<"s","o","u","p">>,
        P(R(85), R(4), R(12), Q(5, 2), R(2), R(3))>>,
      <<<<"w","r","a","p">>,
        P(R(245), R(11), R(32), R(9), Q(5, 2), Q(7, 2))>>,
      <<<<"c","h","e","e","s","e">>,
        P(R(113), R(7), R(1), R(9), R(0), Q(1, 2))>>,
      <<<<"y","o","g","u","r","t">>,
        P(R(59), R(10), Q(18, 5), Q(2, 5), R(0), Q(18, 5))>>,
      <<<<"m","i","l","k">>,
        P(R(61), Q(16, 5), Q(24, 5), Q(33, 10), R(0), Q(51, 10))>>,
      <<<<"n","u","t","s">>,
        P(R(607), R(20), R(16), R(54), R(8), R(4))>>,
      <<<<"a","l","m","o","n","d","s">>,
        P(R(579), R(21), R(22), R(50), Q(25, 2), Q(22, 5))>>,
      <<<<"p","e","a","n","u","t","s">>,
        P(R(567), R(26), R(16), R(49), Q(17, 2), Q(47, 10))>>,
      <<<<"a","v","o","c","a","d","o">>,
        P(R(160), R(2), R(9), R(15), R(7), Q(7, 10))>>
    >>

DefaultNutrition == P(R(150), R(8), R(20), R(5), R(2), R(5))

\* Mutant: the exact match is not tried.
ExactEntrySkipped(k, food_name_lower) == 0

\* "if food_name_lower in nutrition_db": the entry with that key, 0 if none
RECURSIVE ExactEntry(_, _)
ExactEntry(k, food_name_lower) ==
    IF k > Len(nutrition_db) THEN 0
    ELSE IF nutrition_db[k][1] = food_name_lower THEN k
    ELSE ExactEntry(k + 1, food_name_lower)

\* The loop over nutrition_db.items() from entry k on (the dict keeps its
\* insertion order): the first entry that matches partially, 0 if none
RECURSIVE PartialEntry(_, _)
PartialEntry(k, food_name_lower) ==
    IF k > Len(nutrition_db) THEN 0
    ELSE IF \/ IsSubstring(nutrition_db[k][1], food_name_lower)
            \/ IsSubstring(food_name_lower, nutrition_db[k][1])
         THEN k
    ELSE PartialEntry(k + 1, food_name_lower)

get_mock_nutrition_by_food_name(food_name) ==
    LET food_name_lower == Lower(food_name)
        exact == ExactEntry(1, food_name_lower)
        partial == PartialEntry(1, food_name_lower)
    IN IF exact # 0 THEN nutrition_db[exact][2]
       ELSE IF partial # 0 THEN nutrition_db[partial][2]
       ELSE DefaultNutrition

\* Mutant: the fallback profile is used as it is, per serving.
ScaleNone(m, q) == m

\* {k: v * item_quantity for k, v in mock_nutrition.items()}
ScaleAll(m, q) == [f \in MacroFields |-> RMul(m[f], q)]

\* lines 303-308: the four required fields are scaled, fiber and sugar only
\* when truthy
ScaleUsda(m, q) ==
    [f \in MacroFields |->
        IF f \in {"fiber", "sugar"} /\ ~Truthy(m[f]) THEN m[f] ELSE RMul(m[f], q)]

(***************************************************************************)
(* The external nutrition database: responses and their decoding           *)
(***************************************************************************)
KeyConfigured(key) == key # "" /\ key # "your_usda_api_key_here"

MissingKey == "<missing>"

\* A search candidate: a JSON object with or without 'fdcId', or a JSON value
\* that is no object.
Cand(id) == [isDict |-> TRUE, fdcId |-> id]

NotADictCand == [isDict |-> FALSE, fdcId |-> MissingKey]

\* What the search request can come back with: an exception of the client
\* (network failure, timeout), a status other than 200, a body that is no JSON
\* object (response.json() or data.get raises), a JSON object without 'foods',
\* or one whose 'foods' is a list of candidates.
SearchResponses ==
    {[kind |-> k, hasFoods |-> FALSE, foods |-> <<>>] :
        k \in {"exception", "status", "malformed", "ok"}}
    \cup {[kind |-> "ok", hasFoods |-> TRUE, foods |-> f] :
            f \in {<<>>, <<Cand("171688")>>, <<Cand(MissingKey)>>, <<NotADictCand>>}}

search_usda_food(key, resp) ==
    IF ~KeyConfigured(key) THEN <<>>
    ELSE IF resp.kind = "ok"
         THEN IF resp.hasFoods THEN resp.foods ELSE <<>>
         ELSE <<>>

\* One entry of 'foodNutrients'
Nutrient(name, unitName, amount) ==
    [name |-> name, unitName |-> unitName, amount |-> amount]

\* A detail body: a JSON object (empty or not) with its 'foodNutrients', or a
\* non-empty JSON value that is no object.
Body(nutrients) == [isDict |-> TRUE, empty |-> FALSE, foodNutrients |-> nutrients]

EmptyBody == [isDict |-> TRUE, empty |-> TRUE, foodNutrients |-> <<>>]

NotADictBody == [isDict |-> FALSE, empty |-> FALSE, foodNutrients |-> <<>>]

NoBody == [isDict |-> FALSE, empty |-> TRUE, foodNutrients |-> <<>>]

\* A record as FoodData Central gives it: the energy once in kcal and once in
\* kJ (217.568 kJ = 52 kcal), nutrients the map does not name, no entry for
\* the fat (it defaults to 0.0) and none for the sugars (the field stays None).
UsdaBody ==
    Body(<<Nutrient("Energy", <<"k","c","a","l">>, R(52)),
           Nutrient("Protein", <<"g">>, Q(3, 10)),
           Nutrient("Water", <<"g">>, R(85)),
           Nutrient("Carbohydrate, by difference", <<"g">>, R(14)),
           Nutrient("Fiber, total dietary", <<"g">>, Q(12, 5)),
           Nutrient("Energy", <<"k","J">>, Q(27196, 125))>>)

NegativeBody == Body(<<Nutrient("Protein", <<"g">>, R(-1))>>)

DetailBodies == {UsdaBody, NegativeBody, EmptyBody, NotADictBody}

DetailResponses ==
    {[kind |-> k, body |-> NoBody] : k \in {"exception", "status"}}
    \cup {[kind |-> "ok", body |-> b] : b \in DetailBodies}

\* get_usda_nutrition: the body, or NoBody for None
get_usda_nutrition(key, resp) ==
    IF ~KeyConfigured(key) THEN NoBody
    ELSE IF resp.kind = "ok" THEN resp.body ELSE NoBody

\* "if usda_detail:"
BodyTruthy(b) == ~b.empty

nutrient_map ==
    [n \in {"Energy", "Protein", "Carbohydrate, by difference", "Total lipid (fat)",
            "Fiber, total dietary", "Sugars, total including NLEA"} |->
        CASE n = "Energy" -> "calories"
          [] n = "Protein" -> "protein"
          [] n = "Carbohydrate, by difference" -> "carbs"
          [] n = "Total lipid (fat)" -> "fats"
          [] n = "Fiber, total dietary" -> "fiber"
          [] n = "Sugars, total including NLEA" -> "sugar"]

KJ_PER_KCAL == Q(523, 125)

\* The loop of extract_usda_macros: the dict nutrients after the entries of
\* foodNutrients from k on (an absent key is NoneR).
RECURSIVE NutrientLoop(_, _, _)
NutrientLoop(foodNutrients, k, nutrients) ==
    IF k > Len(foodNutrients) THEN nutrients
    ELSE LET nutrient == foodNutrients[k]
             name == nutrient.name
             unit == Str(Upper(nutrient.unitName))
             value == nutrient.amount
             next ==
                 IF name \notin DOMAIN nutrient_map THEN nutrients
                 ELSE IF name = "Energy"
                      THEN IF unit = "KCAL"
                           THEN [nutrients EXCEPT ![nutrient_map[name]] = value]
                           ELSE IF unit = "KJ"
                                THEN [nutrients EXCEPT
                                         ![nutrient_map[name]] = RDiv(value, KJ_PER_KCAL)]
                                ELSE nutrients
                      ELSE [nutrients EXCEPT ![nutrient_map[name]] = value]
         IN NutrientLoop(foodNutrients, k + 1, next)

\* The MacroInfo extract_usda_macros builds (before validation)
extract_usda_macros(usda_food) ==
    LET nutrients == NutrientLoop(usda_food.foodNutrients, 1, NoMacros)
        Get0(f) == IF nutrients[f] = NoneR THEN R(0) ELSE nutrients[f]
    IN P(Get0("calories"), Get0("protein"), Get0("carbs"), Get0("fats"),
         nutrients.fiber, nutrients.sugar)

\* extract_usda_macros raises: usda_food is no dict (no .get), or MacroInfo
\* rejects a negative amount
ExtractRaises(usda_food) ==
    ~usda_food.isDict \/ ~MacroInfoValid(extract_usda_macros(usda_food))

(***************************************************************************)
(* FoodItem and the aggregator                                             *)
(***************************************************************************)
NoneId == "<None>"

NoneStr == "<None>"

\* "if usda_food_id" on Optional[str]
IdTruthy(id) == id # NoneId /\ id # ""

\* line 325
final_confidence(item_confidence, usda_food_id) ==
    IF IdTruthy(usda_food_id)
    THEN RMin(RAdd(item_confidence, Rat(5, 100)), R(1))
    ELSE item_confidence

\* line 333
source_of(usda_food_id) ==
    IF IdTruthy(usda_food_id) THEN "text_usda" ELSE "text_estimated"

\* "; ".join(notes) if notes else None
RECURSIVE JoinNotes(_)
JoinNotes(notes) ==
    IF notes = <<>> THEN NoneStr
    ELSE IF Len(notes) = 1 THEN notes[1]
    ELSE notes[1] \o "; " \o JoinNotes(Tail(notes))

\* FoodItem's validation: quantity gt 0, confidence within [0, 1] (the
\* numerator has the float's sign, and it is 0 for nan)
FoodItemValid(quantity, confidence) ==
    /\ quantity.n > 0
    /\ confidence = NoneR \/ (confidence.n >= 0 /\ RLe(confidence, R(1)))

FoodItem(name, quantity, unit, m, confidence, notes, usda_food_id) ==
    [name |-> name, quantity |-> quantity, unit |-> unit, macros |-> m,
     confidence |-> confidence, source |-> source_of(usda_food_id),
     notes |-> JoinNotes(notes), usda_food_id |-> usda_food_id]

RECURSIVE SumField(_, _)
SumField(items, f) ==
    IF items = <<>> THEN R(0)
    ELSE LET v == Head(items).macros[f]
         IN RAdd(IF v = NoneR THEN R(0) ELSE v, SumField(Tail(items), f))

\* Mutant: the sums are returned as they are.
calculate_totals_unrounded(items) == [f \in MacroFields |-> SumField(items, f)]

\* MacroInfo() as analyze_text builds it for a failed request (line 449)
MacroInfoDefault == P(R(0), R(0), R(0), R(0), NoneR, NoneR)

\* calculate_totals raises: MacroInfo rejects a sum (line 348)
TotalsRaise(items) == ~MacroInfoValid([f \in MacroFields |-> SumField(items, f)])

calculate_totals(items) ==
    [f \in MacroFields |->
        IF f \in {"fiber", "sugar"} /\ ~Truthy(SumField(items, f))
        THEN SumField(items, f)
        ELSE RoundTo(SumField(items, f), 10)]

(***************************************************************************)
(* Inputs                                                                  *)
(***************************************************************************)
MaxSpans == 3

MaxScoredSpans == 2

Labels == {"QUANTITY", "UNIT", "FOOD"}

TextsOf(label) ==
    CASE label = "QUANTITY" -> {<<"2">>, <<"0">>, <<"1","/","2">>}
      [] label = "UNIT" -> {<<"g">>, <<"T","b","s","p">>}
      [] label = "FOOD" -> {<<"a","p","p","l","e","s">>, <<"t","o","f","u">>}

\* The entities of a stock spaCy pipeline carry neither a score nor a
\* confidence attribute.
PlainShapes ==
    {[label |-> l, text |-> t, score |-> NoneR, confidence |-> NoneR] :
        l \in Labels, t \in UNION {TextsOf(l) : l \in Labels}}

ScoreValues == {NoneR, R(0), Rat(1, 2), R(1)}

ConfidenceAttrValues == {NoneR, Rat(1, 4)}

ScoredShapes ==
    {[label |-> l, text |-> t, score |-> sc, confidence |-> cf] :
        l \in Labels, t \in UNION {TextsOf(l) : l \in Labels},
        sc \in ScoreValues, cf \in ConfidenceAttrValues}

WellLabelled(shape) == shape.text \in TextsOf(shape.label)

\* doc.ents: consecutive, non-overlapping entities in text order (token offsets)
Place(shapes) ==
    [k \in 1..Len(shapes) |->
        [label |-> shapes[k].label, text |-> shapes[k].text,
         start |-> k - 1, end |-> k,
         score |-> shapes[k].score, confidence |-> shapes[k].confidence]]

EntitySeqs(shapes, max) ==
    {Place(f) : f \in UNION {[1..n -> {sh \in shapes : WellLabelled(sh)}] : n \in 0..max}}

ApiKeys == {"", "your_usda_api_key_here", "key"}

(***************************************************************************)
(* State                                                                   *)
(***************************************************************************)
VARIABLES
    pc,               \* where the request is
    ML_AVAILABLE,     \* main.py: the import of spacy_extract succeeded
    MODEL_LOADED,     \* spacy_extractor.py: the trained model was loaded
    USDA_API_KEY,
    include_usda,     \* the request's flag
    entities,         \* doc.ents for the request's text
    entity_groups,    \* spacy_extract's groups
    extracted_items,
    idx,              \* position of the resolver's loop in extracted_items
    macros, notes, usda_food_id,    \* the loop body's locals
    calls,            \* external calls issued for the current item
    processed_items,
    totals,
    trace,            \* one record per item the loop has finished
    call,             \* a function called on its own: its name and argument
    ret               \* what that call returned

vars == <<pc, ML_AVAILABLE, MODEL_LOADED, USDA_API_KEY, include_usda, entities,
          entity_groups, extracted_items, idx, macros, notes, usda_food_id, calls,
          processed_items, totals, trace, call, ret>>

env == <<ML_AVAILABLE, MODEL_LOADED, USDA_API_KEY, include_usda, entities,
         call, ret>>

\* No function is called on its own within a request.
NoCall == [fn |-> "", arg |-> <<>>]

NoRet == [done |-> FALSE, val |-> <<>>]

Returned(v) == [done |-> TRUE, val |-> v]

NoCalls == [search |-> 0, detail |-> 0, candidate |-> FALSE, mapped |-> FALSE]

InitRest ==
    /\ pc = "start"
    /\ entity_groups = <<>>
    /\ extracted_items = <<>>
    /\ idx = 0
    /\ macros = NoMacros
    /\ notes = <<>>
    /\ usda_food_id = NoneId
    /\ calls = NoCalls
    /\ processed_items = <<>>
    /\ totals = NoMacros
    /\ trace = <<>>
    /\ ret = NoRet

Init ==
    /\ ML_AVAILABLE \in BOOLEAN
    \* MODEL_LOADED is a global of the module the import brings in
    /\ MODEL_LOADED \in (IF ML_AVAILABLE THEN BOOLEAN ELSE {FALSE})
    /\ USDA_API_KEY \in ApiKeys
    /\ include_usda \in BOOLEAN
    /\ entities \in EntitySeqs(PlainShapes, MaxSpans)
    /\ call = NoCall
    /\ InitRest

\* The extractor alone: the entities of a stock pipeline, and those of a
\* source that attaches scores.
InitExtract ==
    /\ ML_AVAILABLE = TRUE
    /\ MODEL_LOADED = TRUE
    /\ USDA_API_KEY = ""
    /\ include_usda = FALSE
    /\ entities \in EntitySeqs(PlainShapes, MaxSpans)
                     \cup EntitySeqs(ScoredShapes, MaxScoredSpans)
    /\ call = NoCall
    /\ InitRest

(***************************************************************************)
(* Actions                                                                 *)
(***************************************************************************)
\* main.py's enhanced_extract: spacy_extract, or the dummy when the import failed
enhanced_extract(ml_available, model_loaded, ents) ==
    IF ml_available THEN spacy_extract(model_loaded, ents) ELSE <<>>

\* process_text_analysis up to the resolver's loop (lines 269-280)
Extract ==
    /\ pc = "start"
    /\ entity_groups' = IF ML_AVAILABLE /\ MODEL_LOADED
                        THEN group_entities_by_proximity(entities) ELSE <<>>
    /\ extracted_items' = enhanced_extract(ML_AVAILABLE, MODEL_LOADED, entities)
    /\ IF extracted_items' = <<>>
       THEN pc' = "totals" /\ idx' = idx
       ELSE pc' = "item" /\ idx' = 1
    /\ UNCHANGED <<env, macros, notes, usda_food_id, calls, processed_items,
                   totals, trace>>

\* Mutant: the request's flag is not consulted.
LookupIgnoringFlag == KeyConfigured(USDA_API_KEY)

\* line 293
LookupEnabled == include_usda /\ KeyConfigured(USDA_API_KEY)

\* lines 283-295: the locals are reset and, when the lookup is enabled, the
\* search request is issued
ItemBegin ==
    /\ pc = "item"
    /\ macros' = NoMacros
    /\ notes' = <<>>
    /\ usda_food_id' = NoneId
    /\ IF LookupEnabled
       THEN pc' = "search" /\ calls' = [NoCalls EXCEPT !.search = 1]
       ELSE pc' = "finish" /\ calls' = NoCalls
    /\ UNCHANGED <<env, entity_groups, extracted_items, idx, processed_items,
                   totals, trace>>

\* lines 295-300, 311-316: the search comes back; with a candidate the detail
\* request is issued
SearchReturn ==
    /\ pc = "search"
    /\ \E resp \in SearchResponses :
         LET usda_results == search_usda_food(USDA_API_KEY, resp)
         IN IF usda_results # <<>>
            THEN IF usda_results[1].isDict
                 THEN /\ usda_food_id' =
                           (IF usda_results[1].fdcId = MissingKey
                            THEN "" ELSE usda_results[1].fdcId)
                      /\ notes' = notes
                      /\ calls' = [calls EXCEPT !.detail = @ + 1, !.candidate = TRUE]
                      /\ pc' = "detail"
                 ELSE \* usda_food.get raises AttributeError
                      /\ usda_food_id' = usda_food_id
                      /\ notes' = Append(notes, "USDA error")
                      /\ calls' = calls
                      /\ pc' = "finish"
            ELSE /\ usda_food_id' = usda_food_id
                 /\ notes' = Append(notes, "No USDA match found")
                 /\ calls' = calls
                 /\ pc' = "finish"
    /\ UNCHANGED <<env, entity_groups, extracted_items, idx, macros,
                   processed_items, totals, trace>>

\* lines 300-310, 314-316: the detail request comes back
DetailReturn ==
    /\ pc = "detail"
    /\ \E resp \in DetailResponses :
         LET usda_detail == get_usda_nutrition(USDA_API_KEY, resp)
             item_quantity == extracted_items[idx].quantity
         IN IF BodyTruthy(usda_detail)
            THEN IF ExtractRaises(usda_detail)
                 THEN /\ macros' = macros
                      /\ notes' = Append(notes, "USDA error")
                      /\ calls' = calls
                 ELSE /\ macros' = ScaleUsda(extract_usda_macros(usda_detail),
                                             item_quantity)
                      /\ notes' = notes
                      /\ calls' = [calls EXCEPT !.mapped = TRUE]
            ELSE /\ macros' = macros
                 /\ notes' = Append(notes, "USDA nutrition lookup failed")
                 /\ calls' = calls
    /\ pc' = "finish"
    /\ UNCHANGED <<env, entity_groups, extracted_items, idx, usda_food_id,
                   processed_items, totals, trace>>

NoItem ==
    [name |-> <<>>, quantity |-> NoneR, unit |-> "", macros |-> NoMacros,
     confidence |-> NoneR, source |-> "", notes |-> NoneStr, usda_food_id |-> NoneId]

\* Mutant: an item's failure ends the loop.
ItemFinishAbort ==
    /\ pc = "finish"
    /\ LET item == extracted_items[idx]
           item_name == item.ingredient
           item_quantity == item.quantity
           item_confidence == item.confidence
           fallback == macros = NoMacros
           scaled_nutrition ==
               ScaleAll(get_mock_nutrition_by_food_name(item_name), item_quantity)
           final_macros == IF fallback THEN scaled_nutrition ELSE macros
           final_notes ==
               IF fallback THEN Append(notes, "Using estimated nutrition values")
               ELSE notes
           raised ==
               \/ fallback /\ ~MacroInfoValid(scaled_nutrition)
               \/ ~FoodItemValid(item_quantity,
                                 final_confidence(item_confidence, usda_food_id))
           food_item ==
               FoodItem(item_name, item_quantity, item.unit, final_macros,
                        final_confidence(item_confidence, usda_food_id),
                        final_notes, usda_food_id)
       IN /\ processed_items' =
               IF raised THEN processed_items ELSE Append(processed_items, food_item)
          /\ trace' = Append(trace,
                 [idx |-> idx, search |-> calls.search, detail |-> calls.detail,
                  candidate |-> calls.candidate, mapped |-> calls.mapped,
                  fallback |-> fallback,
                  appended |-> ~raised,
                  item |-> IF raised THEN NoItem ELSE food_item])
    /\ IF idx < Len(extracted_items) /\ Len(processed_items') > Len(processed_items)
       THEN pc' = "item" /\ idx' = idx + 1
       ELSE pc' = "totals" /\ idx' = idx
    /\ UNCHANGED <<env, entity_groups, extracted_items, macros, notes,
                   usda_food_id, calls, totals>>

\* lines 318-342: the fallback, the FoodItem, the append; an exception skips
\* the item
ItemFinish ==
    /\ pc = "finish"
    /\ LET item == extracted_items[idx]
           item_name == item.ingredient
           item_quantity == item.quantity
           item_confidence == item.confidence
           fallback == macros = NoMacros
           scaled_nutrition ==
               ScaleAll(get_mock_nutrition_by_food_name(item_name), item_quantity)
           final_macros == IF fallback THEN scaled_nutrition ELSE macros
           final_notes ==
               IF fallback THEN Append(notes, "Using estimated nutrition values")
               ELSE notes
           raised ==
               \/ fallback /\ ~MacroInfoValid(scaled_nutrition)
               \/ ~FoodItemValid(item_quantity,
                                 final_confidence(item_confidence, usda_food_id))
           food_item ==
               FoodItem(item_name, item_quantity, item.unit, final_macros,
                        final_confidence(item_confidence, usda_food_id),
                        final_notes, usda_food_id)
       IN /\ processed_items' =
               IF raised THEN processed_items ELSE Append(processed_items, food_item)
          /\ trace' = Append(trace,
                 [idx |-> idx, search |-> calls.search, detail |-> calls.detail,
                  candidate |-> calls.candidate, mapped |-> calls.mapped,
                  fallback |-> fallback,
                  appended |-> ~raised,
                  item |-> IF raised THEN NoItem ELSE food_item])
    /\ IF idx < Len(extracted_items)
       THEN pc' = "item" /\ idx' = idx + 1
       ELSE pc' = "totals" /\ idx' = idx
    /\ UNCHANGED <<env, entity_groups, extracted_items, macros, notes,
                   usda_food_id, calls, totals>>

\* analyze_text, line 411, and lines 443-454 when calculate_totals raises
Totals ==
    /\ pc = "totals"
    /\ totals' = IF TotalsRaise(processed_items) THEN MacroInfoDefault
                 ELSE calculate_totals(processed_items)
    /\ pc' = "done"
    /\ UNCHANGED <<env, entity_groups, extracted_items, idx, macros, notes,
                   usda_food_id, calls, processed_items, trace>>

Next ==
    \/ Extract
    \/ ItemBegin
    \/ SearchReturn
    \/ DetailReturn
    \/ ItemFinish
    \/ Totals

Spec == Init /\ [][Next]_vars

\* The extractor alone.
NextExtract == Extract

SpecExtract == InitExtract /\ [][NextExtract]_vars

(***************************************************************************)
(* The resolver's loop on any list of item dicts                           *)
(***************************************************************************)
MaxItems == 2

ItemDict(ingredient, quantity, unit, confidence) ==
    [ingredient |-> ingredient, quantity |-> quantity, unit |-> unit,
     confidence |-> confidence]

\* Item dicts as extract_item_from_group can return them: parse_number gives
\* any float the token spells (0, negative ones, and inf for "1e999" or
\* "infinity"), and the confidence is the rounded mean of whatever scores the
\* entities carry.
ItemDicts ==
    {ItemDict(<<"a","p","p","l","e","s">>, R(2), "serving", Q(19, 20)),
     ItemDict(<<"t","o","f","u">>, Q(1, 2), "grams", Q(97, 100)),
     ItemDict(<<"a","p","p","l","e","s">>, R(0), "cups", Q(13, 20)),
     ItemDict(<<"t","o","f","u">>, R(-1), "serving", Q(4, 5)),
     ItemDict(<<"k","a","l","e">>, R(1), "serving", Q(6, 5)),
     ItemDict(<<"k","a","l","e">>, R(3), "bunch", Q(-1, 2)),
     ItemDict(<<"t","o","f","u">>, Inf, "serving", Q(4, 5))}

ItemLists == UNION {[1..n -> ItemDicts] : n \in 0..MaxItems}

\* process_text_analysis once enhanced_extract has returned (line 277)
InitResolve ==
    /\ ML_AVAILABLE = TRUE
    /\ MODEL_LOADED = TRUE
    /\ USDA_API_KEY \in ApiKeys
    /\ include_usda \in BOOLEAN
    /\ entities = <<>>
    /\ entity_groups = <<>>
    /\ extracted_items \in ItemLists
    /\ IF extracted_items = <<>>
       THEN pc = "totals" /\ idx = 0
       ELSE pc = "item" /\ idx = 1
    /\ macros = NoMacros
    /\ notes = <<>>
    /\ usda_food_id = NoneId
    /\ calls = NoCalls
    /\ processed_items = <<>>
    /\ totals = NoMacros
    /\ trace = <<>>
    /\ call = NoCall
    /\ ret = NoRet

NextResolve ==
    \/ ItemBegin
    \/ SearchReturn
    \/ DetailReturn
    \/ ItemFinish
    \/ Totals

SpecResolve == InitResolve /\ [][NextResolve]_vars

(***************************************************************************)
(* The functions called on their own                                       *)
(***************************************************************************)
Call(fn, arg) == [fn |-> fn, arg |-> arg]

\* Ingredient names: keys of the table, other spellings of them, names that
\* contain a key or lie within one, and names the table does not know.
FoodNames ==
    {<<"t","o","f","u">>, <<"T","o","f","u">>, <<"a","p","p","l","e","s">>,
     <<"b","r","o","w","n"," ","r","i","c","e">>, <<"b","r","o","w","n">>,
     <<"b","r","o">>, <<"p","i","z","z","a"," ","r","i","c","e">>,
     <<"c","h","i","c","k","e","n"," ","b","r","e","a","s","t">>,
     <<"k","a","l","e">>, <<"z","z","z">>}

GetMockCall ==
    /\ call.fn = "get_mock_nutrition_by_food_name"
    /\ ~ret.done
    /\ ret' = Returned(get_mock_nutrition_by_food_name(call.arg))
    /\ UNCHANGED <<pc, ML_AVAILABLE, MODEL_LOADED, USDA_API_KEY, include_usda,
                   entities, entity_groups, extracted_items, idx, macros, notes,
                   usda_food_id, calls, processed_items, totals, trace, call>>

\* The macros of returned items: a table profile times 2, an external record
\* without sugars, a table profile with two decimals, and a record without
\* fiber and sugars.
TotalsMacros ==
    {P(R(190), R(1), R(50), Q(3, 5), R(8), R(38)),
     P(R(13), Q(1, 4), Q(7, 2), R(0), Q(3, 5), NoneR),
     P(R(389), Q(169, 10), R(66), Q(69, 10), Q(53, 5), Q(99, 100)),
     P(R(1), Q(33, 100), R(0), R(0), NoneR, NoneR)}

\* Lists of FoodItems; calculate_totals reads their macros only.
TotalsLists ==
    UNION {[1..n -> {[macros |-> m] : m \in TotalsMacros}] : n \in 0..MaxItems}

TotalsCall ==
    /\ call.fn = "calculate_totals"
    /\ ~ret.done
    /\ ret' = Returned(calculate_totals(call.arg))
    /\ UNCHANGED <<pc, ML_AVAILABLE, MODEL_LOADED, USDA_API_KEY, include_usda,
                   entities, entity_groups, extracted_items, idx, macros, notes,
                   usda_food_id, calls, processed_items, totals, trace, call>>

\* Quantity tokens: the absent and the empty token, numerals, fractions and
\* mixed fractions (with a zero denominator too), number words of the table in
\* either case, a number word the table lacks, and text that is no number.
QuantityTokens ==
    {NoneTok, <<>>, <<"2">>, <<" ","2"," ">>, <<"0",".","5">>, <<"-","1">>,
     <<"1","/","2">>, <<"3","/","4">>, <<"1","/","0">>,
     <<"1"," ","1","/","2">>, <<"2"," "," ","1","/","4">>, <<"1"," ","1","/","0">>,
     <<"h","a","l","f">>, <<"H","a","l","f">>, <<"q","u","a","r","t","e","r">>,
     <<"a">>, <<"a","n">>, <<"t","w","o">>, <<"t","e","n">>,
     <<"e","l","e","v","e","n">>, <<"t","w","e","n","t","y">>,
     <<"x","y","z">>, <<"s","o","m","e">>, <<"/">>}

ParseNumberCall ==
    /\ call.fn = "parse_number"
    /\ ~ret.done
    /\ ret' = Returned(parse_number(call.arg))
    /\ UNCHANGED <<pc, ML_AVAILABLE, MODEL_LOADED, USDA_API_KEY, include_usda,
                   entities, entity_groups, extracted_items, idx, macros, notes,
                   usda_food_id, calls, processed_items, totals, trace, call>>

\* Unit tokens: the absent and the empty token, blank ones, spellings of the
\* alias table in either case and with white space around, unknown words.
UnitTokens ==
    {NoneTok, <<>>, <<" ">>, <<" "," ">>, <<"g">>, <<"T","b","s","p">>,
     <<" ","c","u","p"," ">>, <<"s","e","r","v","i","n","g">>,
     <<"h","a","n","d","f","u","l">>, <<"s","m","i","d","g","e">>,
     <<"S","m","i","d","g","e">>}

NormalizeUnitCall ==
    /\ call.fn = "normalize_unit"
    /\ ~ret.done
    /\ ret' = Returned(normalize_unit(call.arg))
    /\ UNCHANGED <<pc, ML_AVAILABLE, MODEL_LOADED, USDA_API_KEY, include_usda,
                   entities, entity_groups, extracted_items, idx, macros, notes,
                   usda_food_id, calls, processed_items, totals, trace, call>>

\* entity_info lists: the spans of a stock pipeline paired with no score, and
\* single spans paired with a score.
EntityInfos ==
    {[k \in 1..Len(g) |-> <<g[k], NoneR>>] : g \in EntitySeqs(PlainShapes, MaxSpans)}
    \cup {<<<<g[1], sc>>>> : g \in EntitySeqs(PlainShapes, 1) \ {<<>>},
                             sc \in ScoreValues \ {NoneR}}

ConfidenceCall ==
    /\ call.fn = "calculate_confidence"
    /\ ~ret.done
    /\ ret' = Returned(calculate_confidence(call.arg))
    /\ UNCHANGED <<pc, ML_AVAILABLE, MODEL_LOADED, USDA_API_KEY, include_usda,
                   entities, entity_groups, extracted_items, idx, macros, notes,
                   usda_food_id, calls, processed_items, totals, trace, call>>

InitCalls ==
    /\ ML_AVAILABLE = TRUE
    /\ MODEL_LOADED = TRUE
    /\ USDA_API_KEY = ""
    /\ include_usda = FALSE
    /\ entities = <<>>
    /\ call \in {Call("get_mock_nutrition_by_food_name", n) : n \in FoodNames}
                \cup {Call("calculate_totals", l) : l \in TotalsLists}
                \cup {Call("parse_number", t) : t \in QuantityTokens}
                \cup {Call("normalize_unit", t) : t \in UnitTokens}
                \cup {Call("calculate_confidence", e) : e \in EntityInfos}
    /\ InitRest

NextCalls ==
    \/ GetMockCall
    \/ TotalsCall
    \/ ParseNumberCall
    \/ NormalizeUnitCall
    \/ ConfidenceCall

\* Each function applied on its own to one argument.
SpecCalls == InitCalls /\ [][NextCalls]_vars

(***************************************************************************)
(* Properties                                                              *)
(***************************************************************************)
Extracted == pc # "start" /\ ML_AVAILABLE /\ MODEL_LOADED

RECURSIVE Concat(_)
Concat(groups) == IF groups = <<>> THEN <<>> ELSE Head(groups) \o Concat(Tail(groups))

LabelsOf(spans) == [k \in 1..Len(spans) |-> spans[k].label]

FoodPositions(spans) == {k \in 1..Len(spans) : spans[k].label = "FOOD"}

\* The start of the first FOOD span of a group that has one
FirstFoodStart(g) ==
    g[CHOOSE k \in FoodPositions(g) : \A j \in FoodPositions(g) : k <= j].start

\* Positions in g of the spans with the label that end at or before the
\* first FOOD span's start
Qualifying(g, label) ==
    {k \in 1..Len(g) : g[k].label = label /\ g[k].end <= FirstFoodStart(g)}

\* g without the QUANTITY and UNIT spans that end after the first FOOD's start
WithoutTrailing(g) ==
    SelectSeq(g, LAMBDA e : e.label = "FOOD" \/ e.end <= FirstFoodStart(g))

\* Every group has a FOOD span, so that extracted_items[k] is the item of
\* entity_groups[k].
ItemsMatchGroups ==
    /\ Extracted
    /\ Len(extracted_items) = Len(entity_groups)
    /\ \A k \in 1..Len(entity_groups) : FoodPositions(entity_groups[k]) # {}

\* C1: the groups, concatenated in order, are the input span sequence, and no
\* group is empty (for every input, the empty one and those without FOOD
\* included).
C1_LosslessPartition ==
    Extracted =>
        /\ Concat(entity_groups) = entities
        /\ \A k \in 1..Len(entity_groups) : entity_groups[k] # <<>>

C1_Witness ==
    /\ Extracted
    /\ Len(entity_groups) = 2
    /\ Len(entity_groups[1]) = 2
    /\ Concat(entity_groups) = entities

\* C1 also on an input without any FOOD span: one group holding everything.
C1_WitnessNoFood ==
    /\ Extracted
    /\ Len(entities) = 2
    /\ FoodPositions(entities) = {}
    /\ entity_groups = <<entities>>

\* C2 (as claimed): an item whose macros come from the fallback table after
\* the search returned a candidate is marked text_estimated, keeps the
\* extracted confidence and carries a note; and an item is marked text_usda
\* exactly when its macros came from the external record.
C2_FallbackProvenance ==
    \A k \in 1..Len(trace) :
        LET t == trace[k] IN
        t.appended =>
            /\ (t.candidate /\ t.fallback) =>
                   /\ t.item.source = "text_estimated"
                   /\ t.item.confidence = extracted_items[t.idx].confidence
                   /\ t.item.notes # NoneStr
            /\ (t.item.source = "text_usda") <=> ~t.fallback

\* C3: with the lookup disabled or unconfigured no request is issued for an
\* item; without a candidate from the search no detail request is issued; and
\* in these cases the macros are the fallback table's, and the item built from
\* them is marked text_estimated, keeps the extracted confidence and has a
\* non-empty note.
C3_NoCallsThenFallback ==
    /\ (~include_usda \/ ~KeyConfigured(USDA_API_KEY)) =>
           /\ pc \notin {"search", "detail"}
           /\ calls.search = 0 /\ calls.detail = 0
    /\ pc = "detail" => calls.candidate
    /\ trace # <<>> =>
        \* trace only grows: the newest record in every state is every record
        LET t == trace[Len(trace)] IN
        /\ (~include_usda \/ ~KeyConfigured(USDA_API_KEY)) =>
               t.search = 0 /\ t.detail = 0
        /\ ~t.candidate => t.detail = 0
        /\ ~t.candidate =>
               /\ t.fallback
               /\ t.appended =>
                      /\ t.item.macros =
                             ScaleAll(get_mock_nutrition_by_food_name(t.item.name),
                                      t.item.quantity)
                      /\ t.item.source = "text_estimated"
                      /\ t.item.confidence = extracted_items[t.idx].confidence
                      /\ t.item.notes \notin {NoneStr, ""}

\* The lookup is disabled by the request and an item has been resolved.
C3_WitnessDisabled ==
    /\ ~include_usda /\ KeyConfigured(USDA_API_KEY)
    /\ trace # <<>>
    /\ trace[1].appended /\ trace[1].search = 0
    /\ trace[1].item.source = "text_estimated"

\* The search ran and gave no candidate, and the item has been resolved.
C3_WitnessNoCandidate ==
    /\ trace # <<>>
    /\ trace[1].search = 1 /\ ~trace[1].candidate /\ trace[1].detail = 0
    /\ trace[1].appended
    /\ trace[1].item.notes = "No USDA match found; Using estimated nutrition values"

\* C4 (as claimed): an item whose candidate's detail record was fetched and
\* mapped is marked text_usda, has the mapped record scaled by its quantity as
\* macros and min(extracted confidence + 0.05, 1.0) as confidence.
C4_ExternalProvenance ==
    \A k \in 1..Len(trace) :
        LET t == trace[k]
            c == extracted_items[t.idx].confidence
        IN (t.appended /\ t.candidate /\ t.mapped) =>
               /\ ~t.fallback
               /\ t.item.source = "text_usda"
               /\ t.item.confidence = RMin(RAdd(c, Q(1, 20)), R(1))
               /\ RLe(t.item.confidence, R(1))

\* C5 (as claimed): the quantity parse_number gives an extracted item is
\* strictly positive.
C5_QuantityPositive ==
    \A k \in 1..Len(extracted_items) : extracted_items[k].quantity.n > 0

\* C6 (as claimed): when the resolver's loop has ended, it has produced one
\* resolved item for each extracted item.
C6_OneResolvedPerExtracted ==
    pc \in {"totals", "done"} => Len(processed_items) = Len(extracted_items)

\* C7 (as claimed): an item of a group without a UNIT span that ends at or
\* before the first FOOD's start has the unit normalize_unit gives an absent
\* token, "servings".
C7_DefaultUnit ==
    ItemsMatchGroups =>
        \A k \in 1..Len(entity_groups) :
            Qualifying(entity_groups[k], "UNIT") = {} =>
                /\ extracted_items[k].unit = normalize_unit(NoneTok)
                /\ extracted_items[k].unit = "servings"

\* The score a span carries: its score attribute, else its confidence attribute
CarriedScore(e) == IF e.score # NoneR THEN e.score ELSE e.confidence

\* C8 (as claimed): the confidence of a group in which some span carries a
\* score (0 included) is the mean of the scores that are present, rounded to
\* two decimals by the assembler.
C8_MeanOfPresentScores ==
    ItemsMatchGroups =>
        \A k \in 1..Len(entity_groups) :
            LET g == entity_groups[k]
                present == SelectSeq(g, LAMBDA e : CarriedScore(e) # NoneR)
                scores == [j \in 1..Len(present) |-> CarriedScore(present[j])]
            IN present # <<>> =>
                   extracted_items[k].confidence =
                       RoundTo(RDiv(SumR(scores), R(Len(scores))), 100)

\* Positions of the input at which a group starts: the first span, and every
\* FOOD span that is not the first FOOD span
GroupStarts ==
    {1} \cup {k \in FoodPositions(entities) : \E j \in FoodPositions(entities) : j < k}

NthStart(n) ==
    CHOOSE k \in GroupStarts : Cardinality({j \in GroupStarts : j < k}) = n - 1

\* C9: a new group starts exactly at each FOOD span that is not the first FOOD
\* span, and begins with it; a non-empty input gives max(1, number of FOOD
\* spans) groups.
C9_GroupBoundaries ==
    (Extracted /\ entities # <<>>) =>
        /\ Len(entity_groups) = Cardinality(GroupStarts)
        /\ Len(entity_groups) =
               (IF FoodPositions(entities) = {} THEN 1
                ELSE Cardinality(FoodPositions(entities)))
        /\ \A n \in 1..Len(entity_groups) :
               entity_groups[n] =
                   SubSeq(entities, NthStart(n),
                          IF n < Len(entity_groups)
                          THEN NthStart(n + 1) - 1 ELSE Len(entities))

\* [QUANTITY, FOOD#1, FOOD#2] gives [QUANTITY, FOOD#1] and [FOOD#2].
C9_Witness ==
    /\ Extracted
    /\ LabelsOf(entities) = <<"QUANTITY", "FOOD", "FOOD">>
    /\ entity_groups = <<SubSeq(entities, 1, 2), SubSeq(entities, 3, 3)>>

\* C10: an item's quantity is parse_number of the QUANTITY span with the
\* largest end among those that end at or before the first FOOD's start, 1.0
\* when there is none; the QUANTITY and UNIT spans that end later change
\* neither the quantity nor the unit.
C10_ClosestPrecedingQuantity ==
    ItemsMatchGroups =>
        \A k \in 1..Len(entity_groups) :
            LET g == entity_groups[k]
                item == extracted_items[k]
                qs == Qualifying(g, "QUANTITY")
            IN /\ qs = {} => item.quantity = R(1)
               /\ qs # {} =>
                      \E j \in qs :
                          /\ \A i \in qs : g[i].end <= g[j].end
                          /\ item.quantity = parse_number(g[j].text)
               /\ item.quantity = extract_item_from_group(WithoutTrailing(g)).quantity
               /\ item.unit = extract_item_from_group(WithoutTrailing(g)).unit

\* Two QUANTITY spans precede the food (the closer one is used) ...
C10_Witness ==
    /\ ItemsMatchGroups
    /\ LabelsOf(entities) = <<"QUANTITY", "QUANTITY", "FOOD">>
    /\ entities[1].text = <<"2">> /\ entities[2].text = <<"1", "/", "2">>
    /\ extracted_items[1].quantity = Q(1, 2)

\* ... and a QUANTITY span that trails the food is ignored.
C10_WitnessTrailing ==
    /\ ItemsMatchGroups
    /\ LabelsOf(entities) = <<"QUANTITY", "FOOD", "QUANTITY">>
    /\ entities[1].text = <<"2">> /\ entities[3].text = <<"1", "/", "2">>
    /\ extracted_items[1].quantity = R(2)

\* C11: the fallback lookup gives the entry whose key is the lower-cased name
\* if there is one, otherwise the first entry in the table's order whose key
\* lies within the lower-cased name or within which the name lies, otherwise
\* the generic profile {150, 8, 20, 5, 2.0, 5.0}; the profile is a function of
\* the name alone.
C11_FallbackLookupOrder ==
    (call.fn = "get_mock_nutrition_by_food_name" /\ ret.done) =>
        LET name == Lower(call.arg)
            exact == {k \in 1..Len(nutrition_db) : nutrition_db[k][1] = name}
            partial == {k \in 1..Len(nutrition_db) :
                           \/ IsSubstring(nutrition_db[k][1], name)
                           \/ IsSubstring(name, nutrition_db[k][1])}
            first == CHOOSE k \in partial : \A j \in partial : k <= j
        IN /\ exact # {} => \E k \in exact : ret.val = nutrition_db[k][2]
           /\ (exact = {} /\ partial # {}) => ret.val = nutrition_db[first][2]
           /\ (exact = {} /\ partial = {}) =>
                  ret.val = P(R(150), R(8), R(20), R(5), R(2), R(5))
           /\ Str(call.arg) = "brown rice" =>
                  ret.val = P(R(112), Q(23, 10), R(24), Q(9, 10), Q(9, 5), Q(2, 5))
           /\ Str(call.arg) = "pizza rice" =>
                  ret.val = P(R(130), Q(27, 10), R(28), Q(3, 10), Q(2, 5), Q(1, 10))
           /\ Str(call.arg) = "bro" =>
                  ret.val = P(R(55), Q(23, 5), R(11), Q(3, 5), Q(51, 10), Q(13, 5))

\* A name holding two keys gets the entry that comes first in the table, not
\* the one that comes first in the name.
C11_Witness ==
    /\ call.fn = "get_mock_nutrition_by_food_name"
    /\ Str(call.arg) = "pizza rice"
    /\ ret.done
    /\ ret.val.calories = R(130)

\* A name the table does not know gets the generic profile.
C11_WitnessDefault ==
    /\ call.fn = "get_mock_nutrition_by_food_name"
    /\ Str(call.arg) = "kale"
    /\ ret.done
    /\ ret.val = DefaultNutrition

\* C12: every macro field of a resolved item is the field of the chosen
\* per-serving profile times the item's quantity, an absent fiber or sugar
\* staying absent: on the external tier the profile is the mapped record, on
\* the fallback tier the table's profile for the item's name; "apples" with
\* quantity 2 and the lookup disabled gives {190, 1.0, 50, 0.6, 8.0, 38}.
\* (Stated of the item the loop has just finished, in the state that follows
\* ItemFinish; every returned item is that item once.)
C12_ScalingLaw ==
    (trace # <<>> /\ pc \in {"item", "totals"}) =>
        LET t == trace[Len(trace)]
            q == extracted_items[t.idx].quantity
            Scaled(profile) ==
                \A f \in MacroFields :
                    t.item.macros[f] =
                        IF profile[f] = NoneR THEN NoneR
                        ELSE Rat(profile[f].n * q.n, profile[f].d * q.d)
        IN t.appended =>
            /\ t.item.quantity = q
            /\ ~t.fallback =>
                   \E profile \in {extract_usda_macros(b) :
                                      b \in {d \in DetailBodies : d.isDict /\ ~d.empty}} :
                       Scaled(profile)
            /\ t.fallback =>
                   \E profile \in {get_mock_nutrition_by_food_name(t.item.name)} :
                       Scaled(profile)
            /\ (Str(t.item.name) = "apples" /\ q = R(2) /\ ~include_usda) =>
                   t.item.macros = P(R(190), R(1), R(50), Q(3, 5), R(8), R(38))

\* "apples" with quantity 2 resolved from the table.
C12_Witness ==
    /\ trace # <<>>
    /\ ~include_usda
    /\ trace[1].appended /\ trace[1].fallback
    /\ Str(trace[1].item.name) = "apples"
    /\ trace[1].item.quantity = R(2)
    /\ trace[1].item.macros.calories = R(190)

\* An external record without sugars, scaled by the quantity 1/2.
C12_WitnessExternal ==
    /\ trace # <<>>
    /\ trace[1].appended /\ trace[1].mapped /\ ~trace[1].fallback
    /\ trace[1].item.quantity = Q(1, 2)
    /\ trace[1].item.macros.calories = R(26)
    /\ trace[1].item.macros.fiber = Q(6, 5)
    /\ trace[1].item.macros.sugar = NoneR

\* C13: the returned list is the extracted list without the failed items, in
\* the extracted order, and an item's failure does not keep the loop from
\* processing the items after it.
C13_OrderPreserved ==
    LET kept == SelectSeq(trace, LAMBDA t : t.appended)
    IN /\ \A k \in 1..Len(trace) : trace[k].idx = k
       /\ Len(trace) <= Len(extracted_items)
       /\ pc \in {"totals", "done"} => Len(trace) = Len(extracted_items)
       /\ Len(processed_items) = Len(kept)
       /\ \A j \in 1..Len(kept) :
              LET item == extracted_items[kept[j].idx]
              IN /\ processed_items[j].name = item.ingredient
                 /\ processed_items[j].quantity = item.quantity
                 /\ processed_items[j].unit = item.unit

\* The first item failed and the second one was returned.
C13_Witness ==
    /\ pc = "done"
    /\ Len(trace) = 2
    /\ ~trace[1].appended /\ trace[2].appended
    /\ Len(processed_items) = 1
    /\ processed_items[1].name = extracted_items[2].ingredient

\* Two items returned in the order of their extraction.
C13_WitnessBoth ==
    /\ pc = "done"
    /\ Len(processed_items) = 2
    /\ Str(processed_items[1].name) = "tofu"
    /\ Str(processed_items[2].name) = "apples"

\* C14: each of the six fields of calculate_totals' result is the sum of the
\* field over the items, an absent fiber or sugar counting 0, rounded to one
\* decimal (a multiple of 0.1 at most 0.05 away from the sum); for the empty
\* list all six fields are 0.
C14_TotalsRoundedSums ==
    (call.fn = "calculate_totals" /\ ret.done) =>
        LET items == call.arg
            Val(k, f) == IF items[k].macros[f] = NoneR THEN R(0)
                         ELSE items[k].macros[f]
            Sum(f) ==
                LET S[k \in 0..Len(items)] ==
                        IF k = 0 THEN R(0) ELSE RAdd(S[k - 1], Val(k, f))
                IN S[Len(items)]
        IN /\ \A f \in MacroFields :
                 LET r == ret.val[f]
                     sum == Sum(f)
                 IN /\ r # NoneR
                    /\ (r.n * 10) % r.d = 0
                    /\ 20 * Abs(r.n * sum.d - sum.n * r.d) <= r.d * sum.d
           /\ items = <<>> => \A f \in MacroFields : ret.val[f] = R(0)

\* Two items, one without fiber and sugars: 16.9 + 0.33 protein gives 17.2,
\* the fiber and the sugars are those of the other item, rounded.
C14_Witness ==
    /\ call.fn = "calculate_totals"
    /\ Len(call.arg) = 2
    /\ call.arg[1].macros.calories = R(389)
    /\ call.arg[2].macros.fiber = NoneR
    /\ ret.done
    /\ ret.val.protein = Q(86, 5)
    /\ ret.val.fiber = Q(53, 5)
    /\ ret.val.sugar = R(1)

\* No item: all-zero totals.
C14_WitnessEmpty ==
    /\ call.fn = "calculate_totals"
    /\ call.arg = <<>>
    /\ ret.done
    /\ ret.val = P(R(0), R(0), R(0), R(0), R(0), R(0))

\* C15: parse_number gives the value of the first rule that succeeds, in the
\* order absent/empty, numeral, fraction a/b, mixed fraction, word table,
\* spelled-out number, else 1.0; a zero denominator makes the fraction rules
\* fail and the token ends at 1.0.  "2" is 2.0, "1/2" 0.5, "1 1/2" 1.5, "half"
\* 0.5, "a" 1.0, "" 1.0 and text that is no number 1.0.
C15_ParseNumberRules ==
    (call.fn = "parse_number" /\ ret.done) =>
        LET expected ==
                "" :> R(1) @@ "2" :> R(2) @@ " 2 " :> R(2) @@ "0.5" :> Q(1, 2) @@
                "-1" :> R(-1) @@
                "1/2" :> Q(1, 2) @@ "3/4" :> Q(3, 4) @@ "1/0" :> R(1) @@
                "1 1/2" :> Q(3, 2) @@ "2  1/4" :> Q(9, 4) @@ "1 1/0" :> R(1) @@
                "half" :> Q(1, 2) @@ "Half" :> Q(1, 2) @@ "quarter" :> Q(1, 4) @@
                "a" :> R(1) @@ "an" :> R(1) @@ "two" :> R(2) @@ "ten" :> R(10) @@
                "eleven" :> R(11) @@ "twenty" :> R(20) @@
                "xyz" :> R(1) @@ "some" :> R(1) @@ "/" :> R(1)
        IN IF call.arg = NoneTok THEN ret.val = R(1)
           ELSE ret.val = expected[Str(call.arg)]

\* The numeral rule and the fraction rule fail on "1 1/2" and the mixed
\* fraction rule gives 1.5.
C15_Witness ==
    /\ call.fn = "parse_number"
    /\ Str(call.arg) = "1 1/2"
    /\ ret.done
    /\ ret.val = Q(3, 2)

\* A mixed fraction with a zero denominator ends at 1.0.
C15_WitnessZeroDenominator ==
    /\ call.fn = "parse_number"
    /\ Str(call.arg) = "1 1/0"
    /\ ret.done
    /\ ret.val = R(1)

\* C16 (as claimed): normalize_unit gives the alias table's canonical form for
\* a lower-cased, trimmed token that is a key of the table, the lower-cased
\* trimmed token itself for an unknown non-empty one, and "servings" for a
\* token that is absent, empty or empty after trimming; never the empty
\* string.  "g" gives "grams", "Tbsp" "tablespoons", "smidge" "smidge", ""
\* "servings".
C16_NormalizeUnit ==
    (call.fn = "normalize_unit" /\ ret.done) =>
        LET token == IF call.arg = NoneTok THEN "" ELSE Str(Strip(Lower(call.arg)))
        IN /\ ret.val # ""
           /\ token = "" => ret.val = "servings"
           /\ token \in DOMAIN UNIT_ALIASES => ret.val = UNIT_ALIASES[token]
           /\ (token # "" /\ token \notin DOMAIN UNIT_ALIASES) => ret.val = token
           /\ token = "g" => ret.val = "grams"
           /\ token = "tbsp" => ret.val = "tablespoons"
           /\ token = "cup" => ret.val = "cups"
           /\ token = "smidge" => ret.val = "smidge"

\* C17: when no span of the group carries a score, the confidence follows
\* from the labels present in the group: FOOD with QUANTITY and UNIT 0.95,
\* FOOD with exactly one of them 0.80, FOOD alone 0.65, no FOOD 0.50.
C17_HeuristicConfidence ==
    (/\ call.fn = "calculate_confidence"
     /\ ret.done
     /\ \A k \in 1..Len(call.arg) : call.arg[k][2] = NoneR) =>
        LET present == {call.arg[k][1].label : k \in 1..Len(call.arg)}
            others == Cardinality(present \cap {"QUANTITY", "UNIT"})
        IN ret.val = IF "FOOD" \notin present THEN Q(1, 2)
                     ELSE IF others = 2 THEN Q(19, 20)
                     ELSE IF others = 1 THEN Q(4, 5)
                     ELSE Q(13, 20)

\* Two quantities and a food, no score: FOOD with exactly one of the others.
C17_Witness ==
    /\ call.fn = "calculate_confidence"
    /\ Len(call.arg) = 3
    /\ call.arg[1][1].label = "QUANTITY" /\ call.arg[2][1].label = "QUANTITY"
    /\ call.arg[3][1].label = "FOOD"
    /\ \A k \in 1..3 : call.arg[k][2] = NoneR
    /\ ret.done
    /\ ret.val = Q(4, 5)

\* All three labels, no score.
C17_WitnessAllThree ==
    /\ call.fn = "calculate_confidence"
    /\ Len(call.arg) = 3
    /\ {call.arg[k][1].label : k \in 1..3} = Labels
    /\ \A k \in 1..3 : call.arg[k][2] = NoneR
    /\ ret.done
    /\ ret.val = Q(19, 20)

\* A group without FOOD.
C17_WitnessNoFood ==
    /\ call.fn = "calculate_confidence"
    /\ Len(call.arg) = 2
    /\ \A k \in 1..2 : call.arg[k][1].label # "FOOD" /\ call.arg[k][2] = NoneR
    /\ ret.done
    /\ ret.val = Q(1, 2)

\* C18: for spans in text order without overlap, every group has at most one
\* FOOD span and every group after the first begins with its FOOD span, the
\* QUANTITY and UNIT spans that follow a FOOD staying in that FOOD's group;
\* so every item of a group after the first has the quantity 1.0 and the
\* default unit (the "serving" the assembler starts from), whatever QUANTITY
\* and UNIT spans precede its food in the text.
C18_LaterGroupsGetDefaults ==
    Extracted =>
        /\ \A g \in 1..Len(entity_groups) :
               Cardinality(FoodPositions(entity_groups[g])) <= 1
        /\ \A g \in 2..Len(entity_groups) :
               /\ entity_groups[g][1].label = "FOOD"
               /\ \A k \in 2..Len(entity_groups[g]) :
                      /\ entity_groups[g][k].label # "FOOD"
                      /\ entity_groups[g][k].start >= entity_groups[g][1].end
        /\ \A g \in 1..(Len(entity_groups) - 1) :
               entity_groups[g][Len(entity_groups[g])].end
                   <= entity_groups[g + 1][1].start
        /\ ItemsMatchGroups =>
               \A g \in 2..Len(extracted_items) :
                   /\ extracted_items[g].quantity = R(1)
                   /\ extracted_items[g].unit = "serving"

\* "apples 2 tofu": the quantity lies between the two foods and goes to the
\* group of the first one; the second item has the quantity 1.0.
C18_Witness ==
    /\ Extracted
    /\ LabelsOf(entities) = <<"FOOD", "QUANTITY", "FOOD">>
    /\ Str(entities[2].text) = "2"
    /\ entity_groups = <<SubSeq(entities, 1, 2), SubSeq(entities, 3, 3)>>
    /\ Len(extracted_items) = 2
    /\ extracted_items[2].quantity = R(1)
    /\ extracted_items[2].unit = "serving"

\* The same with a unit between the two foods.
C18_WitnessUnit ==
    /\ Extracted
    /\ LabelsOf(entities) = <<"FOOD", "UNIT", "FOOD">>
    /\ Len(extracted_items) = 2
    /\ extracted_items[2].unit = "serving"

\* C19 (as claimed): every returned item has a quantity > 0, macro fields
\* >= 0 and a confidence within [0, 1], whatever item dicts the extractor
\* gives and whatever the external source answers; an item that would break
\* one of these bounds is skipped.
C19_ReturnedItemBounds ==
    /\ \A j \in 1..Len(processed_items) :
           LET item == processed_items[j]
           IN /\ RLt(R(0), item.quantity)
              /\ \A f \in MacroFields :
                     item.macros[f] = NoneR \/ RLe(R(0), item.macros[f])
              /\ item.confidence = NoneR
                     \/ (RLe(R(0), item.confidence) /\ RLe(item.confidence, R(1)))
    /\ \A k \in 1..Len(trace) :
           ~RLt(R(0), extracted_items[k].quantity) => ~trace[k].appended

====
